---- MODULE Spec2Model ----
(***************************************************************************)
(* Affinity propagation (src/affprop/temp.py): the similarity matrix, the  *)
(* availability / responsibility recurrence, the stability tracker of      *)
(* afprop_vec2 and the result it returns.                                  *)
(*                                                                         *)
(* Number representation.                                                  *)
(*  - iterations, damp_c and num_stable_iters are held in HALVES (the      *)
(*    variable holds twice the Python value), so that both Python ints     *)
(*    (even) and non-integral floats such as 2.5 (odd) are inputs.         *)
(*  - every entry of a similarity / availability / responsibility matrix   *)
(*    is held multiplied by Scale, a power of two large enough that the    *)
(*    median of integers and every damped update with damp_c in {1/2, 1}   *)
(*    is an integer.  These values are dyadic rationals of small           *)
(*    magnitude, on which IEEE doubles compute exactly.                    *)
(*  - points are indexed from 0 as in the source.                          *)
(***************************************************************************)
EXTENDS Integers, Sequences, FiniteSets, TLC

\* ---------------------------------------------------------------- bounds
MaxPoints == 3
MaxCoord == 1
MaxIterations == 4

RECURSIVE Pow2(_)
Pow2(e) == IF e = 0 THEN 1 ELSE 2 * Pow2(e - 1)

\* one halving for the median and two per loop iteration (the availability
\* update, then the responsibility update that reads it); the loop runs at
\* most MaxIterations - 1 times
Scale == Pow2(2 * MaxIterations - 1)

\* ------------------------------------------------------------- inputs
\* mydata: an n x 1 array of integers, n in 1..MaxPoints, rows indexed from 0.
\* (With two columns afprop_vec2 also draws a scatter plot and returns it in
\* front of the same four values; the algorithm reads the data only through
\* the squared distances.)
Rows == { << x >> : x \in 0..MaxCoord }
DataSets == UNION { [0..(n - 1) -> Rows] : n \in 1..MaxPoints }

PrefValues == 0..3
IterValues == 0..(2 * MaxIterations)
DampValues == (-1)..3
StableValues == 0..(2 * MaxIterations + 2)

IsInt(h) == h % 2 = 0
Val(h) == h \div 2

\* ------------------------------------------------------------ helpers
NumRows(data) == Cardinality(DOMAIN data)
NumCols(data) == Len(data[0])
Idx(n) == 0..(n - 1)

SetMax(S) == CHOOSE x \in S : \A y \in S : y <= x
SetMin(S) == CHOOSE x \in S : \A y \in S : x <= y
Min2(a, b) == IF a <= b THEN a ELSE b

RECURSIVE SumTo(_, _)
\* f[0] + ... + f[m]
SumTo(f, m) == IF m < 0 THEN 0 ELSE f[m] + SumTo(f, m - 1)

Zeros(n) == [i \in Idx(n) |-> [k \in Idx(n) |-> 0]]
NoValue == << >>

\* cdist(mydata, mydata, "euclidean") ** 2, negated, scaled
SqDist(p, q) == SumTo([c \in 0..(Len(p) - 1) |-> (p[c + 1] - q[c + 1]) * (p[c + 1] - q[c + 1])], Len(p) - 1)
NegSqDist(data) ==
    LET n == NumRows(data)
    IN [i \in Idx(n) |-> [k \in Idx(n) |-> -(Scale * SqDist(data[i], data[k]))]]

\* the p-th smallest (0-based) of the values val[x], x \in I, duplicates kept
Kth(val, I, p) ==
    CHOOSE v \in { val[x] : x \in I } :
        /\ Cardinality({ x \in I : val[x] < v }) <= p
        /\ p < Cardinality({ x \in I : val[x] <= v })
\* np.median: the middle value, or the mean of the two middle values
Median(val, I) ==
    LET m == Cardinality(I)
    IN IF m % 2 = 1 THEN Kth(val, I, m \div 2)
       ELSE (Kth(val, I, m \div 2 - 1) + Kth(val, I, m \div 2)) \div 2
Minimum(val, I) == SetMin({ val[x] : x \in I })

FillDiagonal(M, p) ==
    [i \in DOMAIN M |-> [k \in DOMAIN M |-> IF i = k THEN p ELSE M[i][k]]]

\* ------------------------------------------------ calc_similarity_matrix
calc_similarity_matrix(mydata, pref) ==
    LET n == NumRows(mydata)
        neg_euc_dist == NegSqDist(mydata)
        All == Idx(n) \X Idx(n)
        flat == [x \in All |-> neg_euc_dist[x[1]][x[2]]]
        p == IF pref = 1 THEN Minimum(flat, All) ELSE Median(flat, All)
    IN FillDiagonal(neg_euc_dist, p)

\* ------------------------------------------ similarity matrix of afprop_vec2
\* afprop_vec2 calls create_s_metric_matrix and create_s_matrix, whose
\* definitions are not part of src/; they follow the design document:
\* S[i,k] = -||x_i - x_k||^2 off the diagonal, and one preference value on
\* the diagonal, the minimum (mode 1) or median (mode 2) of the off-diagonal
\* entries.  A single point has no off-diagonal entry; its preference is
\* taken to be 0.
create_s_metric_matrix(mydata, num_data_pts) == NegSqDist(mydata)

create_s_matrix(mydata, num_data_pts, pref, s_metric_matrix) ==
    LET Off == { x \in Idx(num_data_pts) \X Idx(num_data_pts) : x[1] # x[2] }
        flat == [x \in Off |-> s_metric_matrix[x[1]][x[2]]]
        p == IF Off = {} THEN 0
             ELSE IF pref = 1 THEN Minimum(flat, Off) ELSE Median(flat, Off)
    IN FillDiagonal(s_metric_matrix, p)

\* ------------------------------------------------------------ init_r_array
\* s_matrix - s_matrix.max(axis=1)[:, None]
init_r_array(s_matrix) ==
    [i \in DOMAIN s_matrix |->
        [k \in DOMAIN s_matrix |->
            s_matrix[i][k] - SetMax({ s_matrix[i][q] : q \in DOMAIN s_matrix })]]

\* damp_c * update_term + (1 - damp_c) * previous, damp_c in halves
Damped(damp, update_term, previous) ==
    (damp * update_term + (2 - damp) * previous) \div 2

\* ---------------------------------------------------------- a_array_update
\* temp_vec of the branch i # k: ones, then zero at k, at i and wherever the
\* previous responsibility of column k is negative
TempVecOff(n, i, k, r_prev) ==
    LET ones == [j \in Idx(n) |-> 1]
        t1 == [ones EXCEPT ![k] = 0]
        t2 == [t1 EXCEPT ![i] = 0]
    IN [j \in Idx(n) |-> IF r_prev[j][k] < 0 THEN 0 ELSE t2[j]]

\* temp_vec of the branch i = k: ones, zero at k and wherever negative
TempVecDiag(n, k, r_prev) ==
    LET ones == [j \in Idx(n) |-> 1]
        t1 == [ones EXCEPT ![k] = 0]
    IN [j \in Idx(n) |-> IF r_prev[j][k] < 0 THEN 0 ELSE t1[j]]

\* np.dot(r_array[niter - 1, :, k], temp_vec)
DotCol(n, r_prev, k, temp_vec) ==
    SumTo([j \in Idx(n) |-> r_prev[j][k] * temp_vec[j]], n - 1)

\* variant: the sender i is not masked out of the sum of the branch i # k
a_array_update_keeps_i(num_data_pts, niter, r_array, damp_c, a_array) ==
    [i \in Idx(num_data_pts) |->
        [k \in Idx(num_data_pts) |->
            LET a_ik_sum == DotCol(num_data_pts, r_array[niter - 1], k,
                                   TempVecDiag(num_data_pts, k, r_array[niter - 1]))
                update_term == IF i # k
                               THEN Min2(r_array[niter - 1][k][k] + a_ik_sum, 0)
                               ELSE a_ik_sum
            IN Damped(damp_c, update_term, a_array[niter - 1][i][k])]]

a_array_update(num_data_pts, niter, r_array, damp_c, a_array) ==
    [i \in Idx(num_data_pts) |->
        [k \in Idx(num_data_pts) |->
            IF i # k
            THEN LET a_ik_sum == DotCol(num_data_pts, r_array[niter - 1], k,
                                        TempVecOff(num_data_pts, i, k, r_array[niter - 1]))
                     update_term == Min2(r_array[niter - 1][k][k] + a_ik_sum, 0)
                 IN Damped(damp_c, update_term, a_array[niter - 1][i][k])
            ELSE LET a_ik_sum == DotCol(num_data_pts, r_array[niter - 1], k,
                                        TempVecDiag(num_data_pts, k, r_array[niter - 1]))
                     update_term == a_ik_sum
                 IN Damped(damp_c, update_term, a_array[niter - 1][i][k])]]

\* ---------------------------------------------------------- r_array_update
\* np.amax over the columns other than i is taken of an empty array when
\* there is a single column; numpy raises ValueError there
RowMaxFails(s_matrix) == Cardinality(DOMAIN s_matrix) < 2

\* variant: the responsibilities read the availabilities of the previous
\* iteration
r_array_update_stale_a(niter, a_array, s_matrix, damp_c, r_array) ==
    LET rng == DOMAIN s_matrix
        s_a_array_sum == [r \in rng |-> [c \in rng |-> a_array[niter - 1][r][c] + s_matrix[r][c]]]
        row_max == [r \in rng |-> [i \in rng |->
                        SetMax({ s_a_array_sum[r][c] : c \in rng \ {i} })]]
    IN [r \in rng |-> [i \in rng |->
            Damped(damp_c, s_matrix[r][i] - row_max[r][i], r_array[niter - 1][r][i])]]

r_array_update(niter, a_array, s_matrix, damp_c, r_array) ==
    LET rng == DOMAIN s_matrix
        s_a_array_sum == [r \in rng |-> [c \in rng |-> a_array[niter][r][c] + s_matrix[r][c]]]
        \* row_max[:, i] = amax(s_a_array_sum[:, rng != i], axis=1)
        row_max == [r \in rng |-> [i \in rng |->
                        SetMax({ s_a_array_sum[r][c] : c \in rng \ {i} })]]
    IN [r \in rng |-> [i \in rng |->
            Damped(damp_c, s_matrix[r][i] - row_max[r][i], r_array[niter - 1][r][i])]]

\* ------------------------------------------------------- per-iteration result
MatSum(X, Y) == [i \in DOMAIN X |-> [k \in DOMAIN X |-> X[i][k] + Y[i][k]]]

\* np.argmax(row): the first index holding the maximum
ArgMax(row) ==
    CHOOSE k \in DOMAIN row :
        /\ \A q \in DOMAIN row : row[q] <= row[k]
        /\ \A q \in DOMAIN row : q < k => row[q] < row[k]

ArgMaxRows(M) == [i \in DOMAIN M |-> ArgMax(M[i])]

\* np.where(argmax == range(n))[0]
Centers(clus) == { i \in DOMAIN clus : clus[i] = i }
\* len(np.unique(clusters))
NumUnique(clus) == Cardinality({ clus[i] : i \in DOMAIN clus })

\* ------------------------------------------------------ parameter checks
\* lines 76-89; iterations, damp_c and num_stable_iters in halves
InvalidPref(pref) == pref # 1 /\ pref # 2
InvalidIterations(iters) == iters < 2 \/ ~IsInt(iters)
InvalidDamping(damp) == damp <= 0 \/ damp > 2
InvalidStable(stable, iters) == stable < 2 \/ stable > iters \/ ~IsInt(stable)

\* variant: a stability window equal to the iteration count is rejected
ParamsRejected_strict(pref, iters, damp, stable) ==
    \/ InvalidPref(pref)
    \/ InvalidIterations(iters)
    \/ InvalidDamping(damp)
    \/ InvalidStable(stable, iters)
    \/ stable >= iters

ParamsRejected(pref, iters, damp, stable) ==
    \/ InvalidPref(pref)
    \/ InvalidIterations(iters)
    \/ InvalidDamping(damp)
    \/ InvalidStable(stable, iters)

\* variant: the window of flags ends at the current iteration
StableRun_current(niter, stable_n, stab) ==
    /\ niter >= stable_n
    /\ \A j \in (niter - stable_n + 1)..niter : stab[j] = 1

\* line 149-151: niter > num_stable_iters and
\* np.all(iter_stability[niter - num_stable_iters : niter] == 1)
StableRun(niter, stable_n, stab) ==
    /\ niter > stable_n
    /\ \A j \in (niter - stable_n)..(niter - 1) : stab[j] = 1

\* ------------------------------------------------------------------ state
VARIABLES
    pc,                 \* position in the called function
    num_cluster_pref,   \* arguments of the call
    iterations,
    damp_c,
    num_stable_iters,
    mydata,
    num_data_pts,       \* locals of afprop_vec2
    s_matrix,
    a_array,
    r_array,
    niter,
    clusters,
    clusters_prev,
    iter_stability,
    printed,            \* the "Stability not acheived" message was printed
    result,             \* what the call returned or raised
    clusters_hist       \* history: the clusters computed at each iteration

vars == << pc, num_cluster_pref, iterations, damp_c, num_stable_iters, mydata,
           num_data_pts, s_matrix, a_array, r_array, niter, clusters,
           clusters_prev, iter_stability, printed, result, clusters_hist >>

params == << num_cluster_pref, iterations, damp_c, num_stable_iters >>
locals == << num_data_pts, s_matrix, a_array, r_array, niter, clusters,
             clusters_prev, iter_stability, clusters_hist >>

Init ==
    /\ pc = "start"
    /\ num_cluster_pref = NoValue
    /\ iterations = NoValue
    /\ damp_c = NoValue
    /\ num_stable_iters = NoValue
    /\ mydata = NoValue
    /\ num_data_pts = NoValue
    /\ s_matrix = NoValue
    /\ a_array = NoValue
    /\ r_array = NoValue
    /\ niter = NoValue
    /\ clusters = NoValue
    /\ clusters_prev = NoValue
    /\ iter_stability = NoValue
    /\ printed = FALSE
    /\ result = NoValue
    /\ clusters_hist = NoValue

\* calc_similarity_matrix(mydata, num_cluster_pref): a pure function, no checks
CalcSimilarity(data, pref) ==
    /\ pc = "start"
    /\ mydata' = data
    /\ num_cluster_pref' = pref
    /\ result' = [kind |-> "matrix", value |-> calc_similarity_matrix(data, pref)]
    /\ pc' = "returned"
    /\ UNCHANGED << iterations, damp_c, num_stable_iters, locals, printed >>

\* afprop_vec2, lines 68-89: the call and its parameter checks.  mydata is
\* first read at line 92 and is drawn there.
Call(pref, iters, damp, stable) ==
    /\ pc = "start"
    /\ num_cluster_pref' = pref
    /\ iterations' = iters
    /\ damp_c' = damp
    /\ num_stable_iters' = stable
    /\ IF ParamsRejected(pref, iters, damp, stable)
       THEN /\ pc' = "raised"
            /\ result' = [kind |-> "ValueError", at |-> "parameters"]
       ELSE /\ pc' = "checked"
            /\ UNCHANGED result
    /\ UNCHANGED << mydata, locals, printed >>

\* lines 91-119: the matrices and the trackers before the loop.  The call at
\* line 112 passes num_data_pts in front of s_matrix; init_r_array as defined
\* at line 19 takes s_matrix alone and is what the model applies.
Setup(data) ==
    /\ pc = "checked"
    /\ LET n == NumRows(data)
           s_metric_matrix == create_s_metric_matrix(data, n)
           s == create_s_matrix(data, n, num_cluster_pref, s_metric_matrix)
           its == Idx(Val(iterations))
       IN /\ mydata' = data
          /\ num_data_pts' = n
          /\ s_matrix' = s
          /\ a_array' = [t \in its |-> Zeros(n)]
          /\ r_array' = [t \in its |-> IF t = 0 THEN init_r_array(s) ELSE Zeros(n)]
          /\ clusters_prev' = [i \in Idx(n) |-> 0]
          /\ iter_stability' = [t \in its |-> 0]
          /\ clusters_hist' = [t \in its |-> NoValue]
    /\ niter' = 1
    /\ pc' = "loop"
    /\ UNCHANGED << params, clusters, printed, result >>

\* line 121 and line 124
UpdateA ==
    /\ pc = "loop"
    /\ niter < Val(iterations)
    /\ a_array' = [a_array EXCEPT ![niter] =
                      a_array_update(num_data_pts, niter, r_array, damp_c, a_array)]
    /\ pc' = "r_update"
    /\ UNCHANGED << params, mydata, num_data_pts, s_matrix, r_array, niter, clusters,
                    clusters_prev, iter_stability, printed, result, clusters_hist >>

\* lines 125-127.  The call passes num_data_pts in front of niter;
\* r_array_update as defined at line 56 takes the remaining five arguments
\* and is what the model applies.
UpdateR ==
    /\ pc = "r_update"
    /\ IF RowMaxFails(s_matrix)
       THEN /\ pc' = "raised"
            /\ result' = [kind |-> "ValueError", at |-> "r_array_update"]
            /\ UNCHANGED r_array
       ELSE /\ r_array' = [r_array EXCEPT ![niter] =
                              r_array_update(niter, a_array, s_matrix, damp_c, r_array)]
            /\ pc' = "observe"
            /\ UNCHANGED result
    /\ UNCHANGED << params, mydata, num_data_pts, s_matrix, a_array, niter, clusters,
                    clusters_prev, iter_stability, printed, clusters_hist >>

\* lines 129-182: the clustering of this iteration, the stability record,
\* the return on a stable run, otherwise the message and the next iteration
Observe ==
    /\ pc = "observe"
    /\ LET r_s_sum_array == MatSum(r_array[niter], a_array[niter])
           clus == ArgMaxRows(r_s_sum_array)
           centers == Centers(clus)
           stab == IF clus = clusters_prev
                   THEN [iter_stability EXCEPT ![niter] = 1]
                   ELSE iter_stability
       IN /\ clusters' = clus
          /\ clusters_hist' = [clusters_hist EXCEPT ![niter] = clus]
          /\ iter_stability' = stab
          /\ IF StableRun(niter, Val(num_stable_iters), stab)
             THEN /\ result' = [kind |-> "converged",
                                plot |-> (NumCols(mydata) = 2),
                                clusters |-> clus,
                                exemplars |-> centers,
                                num_clusters |-> NumUnique(clus),
                                final_iter |-> niter + 1]
                  /\ pc' = "returned"
                  /\ UNCHANGED << niter, clusters_prev, printed >>
             ELSE /\ printed' = (printed \/ niter = Val(iterations) - 1)
                  /\ clusters_prev' = clus
                  /\ niter' = niter + 1
                  /\ pc' = "loop"
                  /\ UNCHANGED result
    /\ UNCHANGED << params, mydata, num_data_pts, s_matrix, a_array, r_array >>

\* the loop is exhausted and the function body ends: Python returns None
FallOff ==
    /\ pc = "loop"
    /\ niter >= Val(iterations)
    /\ result' = [kind |-> "None"]
    /\ pc' = "returned"
    /\ UNCHANGED << params, mydata, locals, printed >>

Next ==
    \/ \E data \in DataSets, pref \in PrefValues : CalcSimilarity(data, pref)
    \/ \E pref \in PrefValues, iters \in IterValues, damp \in DampValues,
          stable \in StableValues : Call(pref, iters, damp, stable)
    \/ \E data \in DataSets : Setup(data)
    \/ UpdateA
    \/ UpdateR
    \/ Observe
    \/ FallOff

Spec == Init /\ [][Next]_vars

\* ------------------------------------------------- phases of a call
AfpropCalled == pc # "start" /\ ~(pc = "returned" /\ result.kind = "matrix")
Rejected == pc = "raised" /\ result.at = "parameters"
Converged == pc = "returned" /\ result.kind = "converged"
ReturnedNone == pc = "returned" /\ result.kind = "None"
RowMaxRaised == pc = "raised" /\ result.at = "r_array_update"
Terminal == pc \in {"returned", "raised"}
AfterSetup == pc \in {"loop", "r_update", "observe"} \/ Converged \/ ReturnedNone \/ RowMaxRaised

\* how many availability / responsibility matrices the loop has computed
ACount == IF pc = "loop" \/ ReturnedNone THEN niter - 1 ELSE niter
RCount == IF pc = "observe" \/ Converged THEN niter ELSE niter - 1

RECURSIVE SumOver(_, _)
SumOver(S, f) ==
    IF S = {} THEN 0
    ELSE LET x == CHOOSE y \in S : TRUE IN f[x] + SumOver(S \ {x}, f)

Pos(x) == IF x > 0 THEN x ELSE 0

\* ======================================================================
\* C1: whenever afprop_vec2 returns a converged result, the cluster count
\* equals the number of returned exemplars and every returned label is one
\* of the returned exemplars.
C1_LabelsAreExemplars ==
    Converged =>
        /\ result.num_clusters = Cardinality(result.exemplars)
        /\ \A i \in DOMAIN result.clusters : result.clusters[i] \in result.exemplars

\* C2: when the iteration budget is used up without a stable run, the call
\* returns an explicit exhausted outcome carrying the labels, exemplars and
\* cluster count of the final iteration, for every maxIterations >= 1.
C2_ExhaustedIsExplicit ==
    (pc = "returned" /\ AfpropCalled /\ ~Converged) =>
        /\ result.kind = "exhausted"
        /\ {"clusters", "exemplars", "num_clusters"} \subseteq DOMAIN result

\* C3: the call raises the parameter ValueError exactly when preferenceMode
\* is not 1 or 2, maxIterations is not an integer >= 1, damping is outside
\* (0,1] or stabilityWindow is not an integer in 1..maxIterations; and when
\* it does, no similarity or message matrix has been built.
C3_Invalid ==
    \/ num_cluster_pref \notin {1, 2}
    \/ ~(IsInt(iterations) /\ Val(iterations) >= 1)
    \/ ~(0 < damp_c /\ damp_c <= 2)
    \/ ~(IsInt(num_stable_iters) /\ 1 <= Val(num_stable_iters)
            /\ num_stable_iters <= iterations)

C3_ParameterCheck ==
    AfpropCalled =>
        /\ C3_Invalid <=> Rejected
        /\ Rejected => /\ s_matrix = NoValue
                       /\ a_array = NoValue
                       /\ r_array = NoValue
                       /\ mydata = NoValue

\* only the window rule rejects: mode 1, damping 1/2, 2 iterations, window 3
C3_Witness ==
    /\ Rejected
    /\ num_cluster_pref = 1
    /\ damp_c = 1
    /\ iterations = 4
    /\ num_stable_iters = 6

\* C4: for n >= 2, calc_similarity_matrix has -(squared distance) off the
\* diagonal and on the diagonal the minimum of the off-diagonal entries in
\* mode 1, their median (diagonal excluded) in mode 2.
C4_Preference ==
    (pc = "returned" /\ result.kind = "matrix" /\ NumRows(mydata) >= 2
        /\ num_cluster_pref \in {1, 2}) =>
        LET S == result.value
            n == NumRows(mydata)
            Off == { x \in Idx(n) \X Idx(n) : x[1] # x[2] }
            flat == [x \in Off |-> -(Scale * SqDist(mydata[x[1]], mydata[x[2]]))]
            p == IF num_cluster_pref = 1 THEN Minimum(flat, Off) ELSE Median(flat, Off)
        IN /\ \A x \in Off : S[x[1]][x[2]] = flat[x]
           /\ \A i \in Idx(n) : S[i][i] = p

\* C5: if the assignment first takes its final value at iteration k and is
\* the same at every later iteration (here: at no fewer than
\* stabilityWindow later iterations, up to the one that returns), the
\* converged result has final_iter = k + stabilityWindow.
FirstFinal ==
    SetMin({ k \in 1..niter : \A j \in k..niter : clusters_hist[j] = result.clusters })

C5_ConvergedAt ==
    (Converged /\ niter - FirstFinal >= Val(num_stable_iters)) =>
        result.final_iter = FirstFinal + Val(num_stable_iters)

\* C6: a single point with valid parameters completes without error, with
\* one cluster whose exemplar is point 0.
C6_SinglePoint ==
    (Terminal /\ AfpropCalled /\ ~Rejected /\ num_data_pts = 1) =>
        /\ Converged
        /\ result.num_clusters = 1
        /\ result.exemplars = {0}

\* C7: convergence is declared at an iteration t > w whose last w stable
\* flags, ending at t, are all set; the labels returned at t equal the
\* assignment of each of the w iterations before t; and a stable flag is
\* set only when the assignment equals the real assignment of the
\* preceding iteration.
C7_StableWindow ==
    Converged =>
        LET t == niter
            w == Val(num_stable_iters)
        IN /\ t > w
           /\ \A j \in (t - w + 1)..t : iter_stability[j] = 1
           /\ \A j \in (t - w)..(t - 1) : clusters_hist[j] = result.clusters
           /\ \A j \in 1..t : iter_stability[j] = 1 =>
                  (j >= 2 /\ clusters_hist[j] = clusters_hist[j - 1])

\* C8: A_0 = 0 and, for every computed iteration t >= 1 and all i, k,
\* A_t[i,k] = damping * u + (1 - damping) * A_{t-1}[i,k], with
\* u = min(0, R_{t-1}[k,k] + sum over j not in {i,k} of max(0, R_{t-1}[j,k]))
\* for i # k and u = sum over j # k of max(0, R_{t-1}[j,k]) for i = k.
\* (stated with both sides doubled: damp_c is held in halves)
C8_Availability ==
    AfterSetup =>
        /\ a_array[0] = Zeros(num_data_pts)
        /\ \A t \in 1..ACount : \A i, k \in Idx(num_data_pts) :
              LET rect == [j \in Idx(num_data_pts) |-> Pos(r_array[t - 1][j][k])]
                  u == IF i # k
                       THEN Min2(0, r_array[t - 1][k][k]
                                    + SumOver(Idx(num_data_pts) \ {i, k}, rect))
                       ELSE SumOver(Idx(num_data_pts) \ {k}, rect)
              IN 2 * a_array[t][i][k] = damp_c * u + (2 - damp_c) * a_array[t - 1][i][k]

C8_Witness ==
    /\ pc = "r_update"
    /\ niter >= 2
    /\ damp_c = 1
    /\ \E i, k \in Idx(num_data_pts) : i # k /\ a_array[niter][i][k] < 0
    /\ \E i, k \in Idx(num_data_pts) : i # k /\ r_array[niter - 1][i][k] > 0
    /\ \E k \in Idx(num_data_pts) : a_array[niter][k][k] > 0

\* C9: R_0[i,k] = S[i,k] - max over all k' of S[i,k']; in every iteration
\* t >= 1 the availability matrix is computed first and the responsibility
\* matrix from that same A_t:
\* R_t[i,k] = damping * (S[i,k] - max over k' # k of (S[i,k'] + A_t[i,k']))
\*            + (1 - damping) * R_{t-1}[i,k].
C9_Responsibility ==
    AfterSetup =>
        /\ RCount <= ACount
        /\ ACount <= RCount + 1
        /\ \A i, k \in Idx(num_data_pts) :
              \E q \in Idx(num_data_pts) :
                  /\ r_array[0][i][k] = s_matrix[i][k] - s_matrix[i][q]
                  /\ \A x \in Idx(num_data_pts) : s_matrix[i][x] <= s_matrix[i][q]
        /\ \A t \in 1..RCount : \A i, k \in Idx(num_data_pts) :
              \E q \in Idx(num_data_pts) \ {k} :
                  /\ \A x \in Idx(num_data_pts) \ {k} :
                        s_matrix[i][x] + a_array[t][i][x] <= s_matrix[i][q] + a_array[t][i][q]
                  /\ 2 * r_array[t][i][k] =
                        damp_c * (s_matrix[i][k] - (s_matrix[i][q] + a_array[t][i][q]))
                        + (2 - damp_c) * r_array[t - 1][i][k]

C9_Witness ==
    /\ pc = "observe"
    /\ niter >= 2
    /\ damp_c = 1
    /\ a_array[niter] # a_array[niter - 1]
    /\ r_array[niter] # r_array[niter - 1]

\* C10: the loop body runs only for iterations 1 .. maxIterations - 1 and
\* convergence is tested only at an iteration greater than
\* stabilityWindow, so a converged result needs
\* stabilityWindow <= maxIterations - 2.
C10_WindowFitsBudget ==
    /\ pc \in {"r_update", "observe"} => (1 <= niter /\ niter <= Val(iterations) - 1)
    /\ Converged => /\ niter > Val(num_stable_iters)
                    /\ niter <= Val(iterations) - 1
                    /\ Val(num_stable_iters) <= Val(iterations) - 2

C10_Witness ==
    /\ Converged
    /\ Val(num_stable_iters) = Val(iterations) - 2
    /\ niter = Val(iterations) - 1

====
